---- MODULE Spec2Model ----
(***************************************************************************)
(* A model of the limit order book of src/main.rs: OrderBook with its two  *)
(* best-price heaps, its two price -> PriceLevel maps and its reusable     *)
(* trade buffer, and place_order with match_level, one step per evaluation *)
(* of a loop head or loop body.  best_buy, best_sell, buy_at and sell_at   *)
(* are read-only and are operators over the state.                         *)
(***************************************************************************)
EXTENDS Integers, Sequences, FiniteSets, Bags

\* Bounds of the model: prices 1..MaxPrice, quantities 0..MaxQuantity, and
\* place_order is called while GLOBAL_TIMESTAMP <= MaxTimestamp.
MaxPrice == 2
MaxQuantity == 2
MaxTimestamp == 3

Prices == 1..MaxPrice
Quantities == 0..MaxQuantity
\* Order ids are opaque to the book: it copies them into orders and trades
\* (lines 115, 146, 174, 175) and never compares or computes with them.  Two
\* values give every pattern of equal and distinct ids between two orders.
Ids == {1, 2}
Sides == {"Buy", "Sell"}

VARIABLES
    GLOBAL_TIMESTAMP,   \* static GLOBAL_TIMESTAMP: the next value handed out
    buy_heap,           \* OrderBook.buy_heap: a bag of prices (max-heap)
    sell_heap,          \* OrderBook.sell_heap: a bag of prices (min-heap)
    buy_map,            \* OrderBook.buy_map: price -> PriceLevel
    sell_map,           \* OrderBook.sell_map: price -> PriceLevel
    trade_buffer,       \* OrderBook.trade_buffer: sequence of Trade
    pc,                 \* position of the running place_order call, or "idle"
    side, price, quantity, id,      \* arguments of the running call
    timestamp,          \* local of place_order (0: not assigned in this call)
    remaining_quantity, \* local of place_order
    best_price,         \* local of the matching loop (0: not assigned)
    entry,              \* history: the book as it was when the call began
    makers              \* history: timestamp of the maker of each trade pushed

book == <<buy_heap, sell_heap, buy_map, sell_map>>
locals == <<side, price, quantity, id, timestamp, remaining_quantity, best_price>>
vars == <<GLOBAL_TIMESTAMP, buy_heap, sell_heap, buy_map, sell_map, trade_buffer,
          pc, side, price, quantity, id, timestamp, remaining_quantity,
          best_price, entry, makers>>

----------------------------------------------------------------------------
\* Option<T>: None is the empty sequence, Some(x) the one-element sequence.
None == <<>>
Some(x) == <<x>>

MinMutant(a, b) == a
Min(a, b) == IF a <= b THEN a ELSE b

SetMax(S) == CHOOSE x \in S : \A y \in S : y <= x
SetMin(S) == CHOOSE x \in S : \A y \in S : x <= y

\* level.orders.iter().map(|o| o.quantity).sum()
RECURSIVE SumQuantity(_)
SumQuantity(orders) ==
    IF orders = <<>> THEN 0
    ELSE Head(orders).quantity + SumQuantity(Tail(orders))

\* HashMap: a function whose domain is the set of keys present.
EmptyMap == [k \in {} |-> 0]
MapInsert(m, k, v) == [x \in DOMAIN m \cup {k} |-> IF x = k THEN v ELSE m[x]]
MapRemove(m, k) == [x \in DOMAIN m \ {k} |-> m[x]]

\* BinaryHeap: a bag of prices; peek is the greatest entry under the heap's
\* order (HeapEntry for buy_heap, Reverse<HeapEntry> for sell_heap), pop
\* removes one copy of it, push adds one copy.
HeapPush(h, p) == h (+) SetToBag({p})
HeapContains(h, p) == BagIn(p, h)

BuyPeek(h) == IF BagToSet(h) = {} THEN None ELSE Some(SetMax(BagToSet(h)))

SellPeekMutant(h) == IF BagToSet(h) = {} THEN None ELSE Some(SetMax(BagToSet(h)))
SellPeek(h) == IF BagToSet(h) = {} THEN None ELSE Some(SetMin(BagToSet(h)))

BuyPopMutant(h) == h
BuyPop(h) == IF BagToSet(h) = {} THEN h ELSE h (-) SetToBag({SetMax(BagToSet(h))})
SellPopMutant(h) == h
SellPop(h) == IF BagToSet(h) = {} THEN h ELSE h (-) SetToBag({SetMin(BagToSet(h))})

----------------------------------------------------------------------------
\* OrderBook::get_quantity_at_price
get_quantity_at_price(price_map, p) ==
    IF p \in DOMAIN price_map
    THEN Some(<<p, SumQuantity(price_map[p].orders)>>)
    ELSE None

buy_at(p) == get_quantity_at_price(buy_map, p)
sell_at(p) == get_quantity_at_price(sell_map, p)

best_buy ==
    LET top == BuyPeek(buy_heap) IN
    IF top = None THEN None
    ELSE IF top[1] \in DOMAIN buy_map
         THEN Some(<<top[1], SumQuantity(buy_map[top[1]].orders)>>)
         ELSE None

best_sell ==
    LET top == SellPeek(sell_heap) IN
    IF top = None THEN None
    ELSE IF top[1] \in DOMAIN sell_map
         THEN Some(<<top[1], SumQuantity(sell_map[top[1]].orders)>>)
         ELSE None

----------------------------------------------------------------------------
\* OrderBook::new, and GLOBAL_TIMESTAMP = AtomicU64::new(1)
Init ==
    /\ GLOBAL_TIMESTAMP = 1
    /\ buy_heap = EmptyBag
    /\ sell_heap = EmptyBag
    /\ buy_map = EmptyMap
    /\ sell_map = EmptyMap
    /\ trade_buffer = <<>>
    /\ pc = "idle"
    /\ side = "Buy"
    /\ price = 1
    /\ quantity = 0
    /\ id = 1
    /\ timestamp = 0
    /\ remaining_quantity = 0
    /\ best_price = 0
    /\ entry = [buy_heap |-> EmptyBag, sell_heap |-> EmptyBag,
                buy_map |-> EmptyMap, sell_map |-> EmptyMap,
                trade_buffer |-> <<>>, GLOBAL_TIMESTAMP |-> 1]
    /\ makers = <<>>

\* The book, the buffer and the counter as the call finds them.
Snapshot ==
    [buy_heap |-> buy_heap, sell_heap |-> sell_heap,
     buy_map |-> buy_map, sell_map |-> sell_map,
     trade_buffer |-> trade_buffer, GLOBAL_TIMESTAMP |-> GLOBAL_TIMESTAMP]

\* Vec::clear on the trade buffer (lines 85 and 91).
ClearMutant(trades) == trades
Clear(trades) == <<>>

\* The early return's test (line 84).
ZeroQuantityMutant(q) == FALSE
ZeroQuantity(q) == q = 0

\* place_order, lines 83-93: the early return on quantity 0, else the
\* timestamp, remaining_quantity, the cleared buffer and the match on side.
PlaceOrder(s, p, q, i) ==
    /\ pc = "idle"
    /\ GLOBAL_TIMESTAMP <= MaxTimestamp
    /\ side' = s /\ price' = p /\ quantity' = q /\ id' = i
    /\ entry' = Snapshot
    /\ makers' = <<>>
    /\ best_price' = 0
    /\ trade_buffer' = Clear(trade_buffer)
    /\ IF ZeroQuantity(q)
       THEN /\ pc' = "return"
            /\ timestamp' = 0
            /\ remaining_quantity' = 0
            /\ UNCHANGED GLOBAL_TIMESTAMP
       ELSE /\ timestamp' = GLOBAL_TIMESTAMP
            /\ GLOBAL_TIMESTAMP' = GLOBAL_TIMESTAMP + 1
            /\ remaining_quantity' = q
            /\ pc' = IF s = "Buy" THEN "buy_loop" ELSE "sell_loop"
    /\ UNCHANGED book

\* The crossing tests: the loop breaks on price < best_price for a buy
\* (line 99) and on price > best_price for a sell (line 130).
BuyCrossesMutant(p, best) == p > best
BuyCrossesMutantAlways(p, best) == TRUE
BuyCrosses(p, best) == ~(p < best)

SellCrossesMutant(p, best) == p < best
SellCrosses(p, best) == ~(p > best)

\* One evaluation of the head of the buy loop (lines 96-102): leave the loop
\* when nothing remains, when the sell heap is empty or when the best sell
\* price does not cross; else look the level up (unwrap panics when the map
\* holds no level for the heap's top) and enter match_level.
BuyLoop ==
    /\ pc = "buy_loop"
    /\ LET top == SellPeek(sell_heap) IN
       IF remaining_quantity > 0 /\ top # None /\ BuyCrosses(price, top[1])
       THEN /\ best_price' = top[1]
            /\ pc' = IF top[1] \in DOMAIN sell_map THEN "buy_match" ELSE "panic"
       ELSE /\ pc' = "buy_rest"
            /\ UNCHANGED best_price
    /\ UNCHANGED <<GLOBAL_TIMESTAMP, book, trade_buffer, side, price, quantity,
                   id, timestamp, remaining_quantity, entry, makers>>

\* One pass of the body of match_level's loop (lines 170-183) on a level
\* whose queue is not empty: the new level, the new remaining quantity and
\* the trade buffer with the trade pushed.
MatchFrontMutantPrice(level, px, rem, taker_id, trades) ==
    LET order == Head(level.orders)
        trade_qty == Min(order.quantity, rem)
        left == order.quantity - trade_qty
    IN [level |-> [orders |-> IF left = 0 THEN Tail(level.orders)
                              ELSE <<[order EXCEPT !.quantity = left]>>
                                   \o Tail(level.orders)],
        remaining_quantity |-> rem - trade_qty,
        trades |-> Append(trades, [price |-> price, quantity |-> trade_qty,
                                   maker_id |-> order.id, taker_id |-> taker_id]),
        maker |-> order.timestamp]

MatchFrontMutantBack(level, px, rem, taker_id, trades) ==
    LET n == Len(level.orders)
        order == level.orders[n]
        trade_qty == Min(order.quantity, rem)
        left == order.quantity - trade_qty
    IN [level |-> [orders |-> IF left = 0 THEN SubSeq(level.orders, 1, n - 1)
                              ELSE SubSeq(level.orders, 1, n - 1)
                                   \o <<[order EXCEPT !.quantity = left]>>],
        remaining_quantity |-> rem - trade_qty,
        trades |-> Append(trades, [price |-> px, quantity |-> trade_qty,
                                   maker_id |-> order.id, taker_id |-> taker_id]),
        maker |-> order.timestamp]

MatchFrontMutantMaker(level, px, rem, taker_id, trades) ==
    LET order == Head(level.orders)
        trade_qty == Min(order.quantity, rem)
        left == order.quantity - trade_qty
    IN [level |-> [orders |-> IF left = 0 THEN Tail(level.orders)
                              ELSE level.orders],
        remaining_quantity |-> rem - trade_qty,
        trades |-> Append(trades, [price |-> px, quantity |-> trade_qty,
                                   maker_id |-> order.id, taker_id |-> taker_id]),
        maker |-> order.timestamp]

MatchFrontMutantNoPop(level, px, rem, taker_id, trades) ==
    LET order == Head(level.orders)
        trade_qty == Min(order.quantity, rem)
        left == order.quantity - trade_qty
    IN [level |-> [orders |-> <<[order EXCEPT !.quantity = left]>>
                              \o Tail(level.orders)],
        remaining_quantity |-> rem - trade_qty,
        trades |-> Append(trades, [price |-> px, quantity |-> trade_qty,
                                   maker_id |-> order.id, taker_id |-> taker_id]),
        maker |-> order.timestamp]

MatchFrontMutantRequeue(level, px, rem, taker_id, trades) ==
    LET order == Head(level.orders)
        trade_qty == Min(order.quantity, rem)
        left == order.quantity - trade_qty
    IN [level |-> [orders |-> IF left = 0 THEN Tail(level.orders)
                              ELSE Tail(level.orders)
                                   \o <<[order EXCEPT !.quantity = left]>>],
        remaining_quantity |-> rem - trade_qty,
        trades |-> Append(trades, [price |-> px, quantity |-> trade_qty,
                                   maker_id |-> order.id, taker_id |-> taker_id]),
        maker |-> order.timestamp]

MatchFrontMutantUnit(level, px, rem, taker_id, trades) ==
    LET order == Head(level.orders)
        trade_qty == 1
        left == order.quantity - trade_qty
    IN [level |-> [orders |-> IF left = 0 THEN Tail(level.orders)
                              ELSE <<[order EXCEPT !.quantity = left]>>
                                   \o Tail(level.orders)],
        remaining_quantity |-> rem - trade_qty,
        trades |-> Append(trades, [price |-> px, quantity |-> trade_qty,
                                   maker_id |-> order.id, taker_id |-> taker_id]),
        maker |-> order.timestamp]

\* The result names, beside the three things the code updates, the timestamp
\* of the order traded against (history: a Trade carries only the maker's id).
MatchFront(level, px, rem, taker_id, trades) ==
    LET order == Head(level.orders)
        trade_qty == Min(order.quantity, rem)
        left == order.quantity - trade_qty
    IN [level |-> [orders |-> IF left = 0 THEN Tail(level.orders)
                              ELSE <<[order EXCEPT !.quantity = left]>>
                                   \o Tail(level.orders)],
        remaining_quantity |-> rem - trade_qty,
        trades |-> Append(trades, [price |-> px, quantity |-> trade_qty,
                                   maker_id |-> order.id, taker_id |-> taker_id]),
        maker |-> order.timestamp]

\* match_level on the sell level at best_price, one evaluation of
\* `while let Some(order) = level.orders.front_mut()` (lines 169-188): with
\* the queue empty the loop ends; else one pass of the body, and the loop
\* ends by `break` when nothing remains.
BuyMatchLevel ==
    /\ pc = "buy_match"
    /\ LET level == sell_map[best_price] IN
       IF level.orders = <<>>
       THEN /\ pc' = "buy_remove"
            /\ UNCHANGED <<sell_map, remaining_quantity, trade_buffer, makers>>
       ELSE LET r == MatchFront(level, best_price, remaining_quantity, id,
                                trade_buffer) IN
            /\ sell_map' = [sell_map EXCEPT ![best_price] = r.level]
            /\ remaining_quantity' = r.remaining_quantity
            /\ trade_buffer' = r.trades
            /\ makers' = Append(makers, r.maker)
            /\ pc' = IF r.remaining_quantity = 0 THEN "buy_remove" ELSE "buy_match"
    /\ UNCHANGED <<GLOBAL_TIMESTAMP, buy_heap, sell_heap, buy_map, side, price,
                   quantity, id, timestamp, best_price, entry>>

\* Lines 106-109 and 137-140: the level at best_price leaves the map, and
\* the top of the heap is popped, when the level is absent or empty.
LevelGoneMutant(price_map, p) == p \notin DOMAIN price_map
LevelGone(price_map, p) ==
    IF p \in DOMAIN price_map THEN price_map[p].orders = <<>> ELSE TRUE

BuyRemoveLevel ==
    /\ pc = "buy_remove"
    /\ IF LevelGone(sell_map, best_price)
       THEN /\ sell_map' = MapRemove(sell_map, best_price)
            /\ sell_heap' = SellPop(sell_heap)
       ELSE UNCHANGED <<sell_map, sell_heap>>
    /\ pc' = "buy_loop"
    /\ UNCHANGED <<GLOBAL_TIMESTAMP, buy_heap, buy_map, trade_buffer, locals,
                   entry, makers>>

\* Lines 115 and 146: the order that comes to rest.
NewOrderMutant(i, p, rem, ts) ==
    [id |-> i, price |-> p, quantity |-> quantity, timestamp |-> ts]
NewOrder(i, p, rem, ts) ==
    [id |-> i, price |-> p, quantity |-> rem, timestamp |-> ts]

\* Lines 116-119 and 147-150: the level for the price, created when absent,
\* with the order pushed at the back.
InsertOrderMutantFront(price_map, order) ==
    LET level == IF order.price \in DOMAIN price_map
                 THEN price_map[order.price]
                 ELSE [orders |-> <<>>]
    IN MapInsert(price_map, order.price,
                 [orders |-> <<order>> \o level.orders])

InsertOrder(price_map, order) ==
    LET level == IF order.price \in DOMAIN price_map
                 THEN price_map[order.price]
                 ELSE [orders |-> <<>>]
    IN MapInsert(price_map, order.price,
                 [orders |-> Append(level.orders, order)])

\* Lines 120-122 and 151-153: the price is pushed unless the heap holds it.
IndexPriceMutant(h, p) == HeapPush(h, p)
IndexPrice(h, p) == IF HeapContains(h, p) THEN h ELSE HeapPush(h, p)

\* Lines 114-123: the remainder of a buy comes to rest; the call returns.
BuyRest ==
    /\ pc = "buy_rest"
    /\ IF remaining_quantity > 0
       THEN /\ buy_map' = InsertOrder(buy_map,
                              NewOrder(id, price, remaining_quantity,
                                       timestamp))
            /\ buy_heap' = IndexPrice(buy_heap, price)
       ELSE UNCHANGED <<buy_map, buy_heap>>
    /\ pc' = "return"
    /\ UNCHANGED <<GLOBAL_TIMESTAMP, sell_heap, sell_map, trade_buffer, locals,
                   entry, makers>>

\* The sell branch (lines 127-154), the mirror of the buy branch.
SellLoop ==
    /\ pc = "sell_loop"
    /\ LET top == BuyPeek(buy_heap) IN
       IF remaining_quantity > 0 /\ top # None /\ SellCrosses(price, top[1])
       THEN /\ best_price' = top[1]
            /\ pc' = IF top[1] \in DOMAIN buy_map THEN "sell_match" ELSE "panic"
       ELSE /\ pc' = "sell_rest"
            /\ UNCHANGED best_price
    /\ UNCHANGED <<GLOBAL_TIMESTAMP, book, trade_buffer, side, price, quantity,
                   id, timestamp, remaining_quantity, entry, makers>>

SellMatchLevel ==
    /\ pc = "sell_match"
    /\ LET level == buy_map[best_price] IN
       IF level.orders = <<>>
       THEN /\ pc' = "sell_remove"
            /\ UNCHANGED <<buy_map, remaining_quantity, trade_buffer, makers>>
       ELSE LET r == MatchFront(level, best_price, remaining_quantity, id,
                                trade_buffer) IN
            /\ buy_map' = [buy_map EXCEPT ![best_price] = r.level]
            /\ remaining_quantity' = r.remaining_quantity
            /\ trade_buffer' = r.trades
            /\ makers' = Append(makers, r.maker)
            /\ pc' = IF r.remaining_quantity = 0 THEN "sell_remove" ELSE "sell_match"
    /\ UNCHANGED <<GLOBAL_TIMESTAMP, buy_heap, sell_heap, sell_map, side, price,
                   quantity, id, timestamp, best_price, entry>>

SellRemoveLevel ==
    /\ pc = "sell_remove"
    /\ IF LevelGone(buy_map, best_price)
       THEN /\ buy_map' = MapRemove(buy_map, best_price)
            /\ buy_heap' = BuyPop(buy_heap)
       ELSE UNCHANGED <<buy_map, buy_heap>>
    /\ pc' = "sell_loop"
    /\ UNCHANGED <<GLOBAL_TIMESTAMP, sell_heap, sell_map, trade_buffer, locals,
                   entry, makers>>

SellRest ==
    /\ pc = "sell_rest"
    /\ IF remaining_quantity > 0
       THEN /\ sell_map' = InsertOrder(sell_map,
                               NewOrder(id, price, remaining_quantity,
                                        timestamp))
            /\ sell_heap' = IndexPrice(sell_heap, price)
       ELSE UNCHANGED <<sell_map, sell_heap>>
    /\ pc' = "return"
    /\ UNCHANGED <<GLOBAL_TIMESTAMP, buy_heap, buy_map, trade_buffer, locals,
                   entry, makers>>

\* Lines 86 and 157: the call returns the trade buffer; its arguments and
\* locals are gone, the book, the buffer and the counter stay.
Return ==
    /\ pc = "return"
    /\ pc' = "idle"
    /\ side' = "Buy" /\ price' = 1 /\ quantity' = 0 /\ id' = 1
    /\ timestamp' = 0 /\ remaining_quantity' = 0 /\ best_price' = 0
    /\ entry' = Snapshot
    /\ makers' = <<>>
    /\ UNCHANGED <<GLOBAL_TIMESTAMP, book, trade_buffer>>

Call == \E s \in Sides, p \in Prices, q \in Quantities, i \in Ids :
            PlaceOrder(s, p, q, i)

Next ==
    \/ Call
    \/ BuyLoop \/ BuyMatchLevel \/ BuyRemoveLevel \/ BuyRest
    \/ SellLoop \/ SellMatchLevel \/ SellRemoveLevel \/ SellRest
    \/ Return

Spec == Init /\ [][Next]_vars

\* A call that has begun keeps running: place_order is sequential code that
\* neither blocks nor yields, so its next step is taken whenever there is one.
Running ==
    \/ BuyLoop \/ BuyMatchLevel \/ BuyRemoveLevel \/ BuyRest
    \/ SellLoop \/ SellMatchLevel \/ SellRemoveLevel \/ SellRest
    \/ Return

FairSpec == Spec /\ WF_vars(Running)

----------------------------------------------------------------------------
\* The orders resting in a map, whatever level holds them.
OrdersOf(level) == {level.orders[n] : n \in 1..Len(level.orders)}
RestingOrders(price_map) == UNION {OrdersOf(price_map[k]) : k \in DOMAIN price_map}

\* The side a call matches against, before and after a step.
Opposing == IF side = "Buy" THEN sell_map ELSE buy_map
OpposingNext == IF side = "Buy" THEN sell_map' ELSE buy_map'

\* A step of match_level's body: one trade more in the buffer.
TradePushed == Len(trade_buffer') = Len(trade_buffer) + 1
LastTrade == trade_buffer'[Len(trade_buffer')]

\* No resting order of the opposing side is priced strictly better than px.
NoBetterPrice(px) ==
    \A o \in RestingOrders(Opposing) :
        IF side = "Buy" THEN o.price >= px ELSE o.price <= px

\* C1, per trade: the trade is taken from an opposing level that holds an
\* order, no opposing order rests at a strictly better price at that moment,
\* and no other level changes.
C1_BestLevelStep ==
    TradePushed =>
        /\ LastTrade.price \in DOMAIN Opposing
        /\ Opposing[LastTrade.price].orders # <<>>
        /\ NoBetterPrice(LastTrade.price)
        /\ \A k \in DOMAIN Opposing \ {LastTrade.price} :
               k \in DOMAIN OpposingNext /\ OpposingNext[k] = Opposing[k]

\* C1, per result: the trade prices of a call never decrease for a buy taker
\* and never increase for a sell taker.
C1_PricesMonotone ==
    pc # "idle" =>
        \A m, n \in 1..Len(trade_buffer) :
            m < n => IF side = "Buy"
                     THEN trade_buffer[m].price <= trade_buffer[n].price
                     ELSE trade_buffer[m].price >= trade_buffer[n].price

\* C1 (price priority): within a place_order call every trade is made against
\* the opposing level with the best resting price at that moment (lowest sell
\* for a buy taker, highest buy for a sell taker), whatever order the levels
\* were created in; so the trade prices of one result are non-decreasing for
\* a buy taker and non-increasing for a sell taker.
C1_PricePriority == []C1_PricesMonotone /\ [][C1_BestLevelStep]_vars

\* A buy has swept two sell levels, the better priced of which was created
\* after the worse priced one.
C1_Witness ==
    /\ pc = "return" /\ side = "Buy"
    /\ Len(trade_buffer) = 2
    /\ trade_buffer[1].price < trade_buffer[2].price
    /\ makers[1] > makers[2]

\* The opposing orders a step changes or removes.
Touched == RestingOrders(Opposing) \ RestingOrders(OpposingNext)

\* C2, per trade: the trade is made against one resting order, it carries
\* that order's id, and no order at the same price came to rest before it and
\* still rests.
C2_FrontStep ==
    TradePushed =>
        \E maker \in Touched :
            /\ Touched = {maker}
            /\ LastTrade.maker_id = maker.id
            /\ \A o \in RestingOrders(Opposing) :
                   o.price = maker.price => o.timestamp >= maker.timestamp

\* C2, per result: the makers taken from one price level appear in the order
\* in which they came to rest.
C2_ArrivalOrder ==
    pc # "idle" =>
        /\ Len(makers) = Len(trade_buffer)
        /\ \A m, n \in 1..Len(makers) :
               (m < n /\ trade_buffer[m].price = trade_buffer[n].price)
                   => makers[m] < makers[n]

\* C2 (FIFO fairness): of two orders resting at the same price on the same
\* side, the one that came to rest first is traded against first; no trade
\* names the later one as maker while the earlier one still rests, and the
\* makers of one price level appear in arrival order in a result.
C2_FifoFairness == []C2_ArrivalOrder /\ [][C2_FrontStep]_vars

\* A call has traded against two orders of different ids resting at one
\* price, the earlier first.
C2_Witness ==
    /\ pc = "return"
    /\ Len(trade_buffer) = 2
    /\ trade_buffer[1].price = trade_buffer[2].price
    /\ trade_buffer[1].maker_id # trade_buffer[2].maker_id
    /\ makers[1] < makers[2]

----------------------------------------------------------------------------
\* The taker's own side now, and both sides as the call found them.
Own == IF side = "Buy" THEN buy_map ELSE sell_map
EntryOwn == IF side = "Buy" THEN entry.buy_map ELSE entry.sell_map
EntryOpposing == IF side = "Buy" THEN entry.sell_map ELSE entry.buy_map

RECURSIVE SetSumQuantity(_)
SetSumQuantity(S) ==
    IF S = {} THEN 0
    ELSE LET o == CHOOSE x \in S : TRUE
         IN o.quantity + SetSumQuantity(S \ {o})

\* The orders this call has left resting on the taker's side.
NewlyResting == RestingOrders(Own) \ RestingOrders(EntryOwn)

\* C3 (taker quantity conservation): when a place_order call returns, the
\* quantities of the returned trades plus the quantity of the order the call
\* left resting (0 if none) add up to the incoming quantity.
C3_TakerConservation ==
    pc = "return" =>
        SumQuantity(trade_buffer) + SetSumQuantity(NewlyResting) = quantity

\* A call has been matched in part and its remainder rests.
C3_Witness ==
    /\ pc = "return"
    /\ trade_buffer # <<>>
    /\ NewlyResting # {}

\* The quantity with which the order of timestamp ts rests now (0: removed).
QuantityNow(ts) ==
    SetSumQuantity({o \in RestingOrders(buy_map) \cup RestingOrders(sell_map) :
                        o.timestamp = ts})
QuantityNext(ts) ==
    SetSumQuantity({o \in RestingOrders(buy_map') \cup RestingOrders(sell_map') :
                        o.timestamp = ts})

\* The quantities of the trades of this call made against the order ts.
RECURSIVE TradedAgainst(_, _)
TradedAgainst(ts, n) ==
    IF n = 0 THEN 0
    ELSE (IF makers[n] = ts THEN trade_buffer[n].quantity ELSE 0)
         + TradedAgainst(ts, n - 1)

\* C4, per call: every order that rested when the call began has lost exactly
\* the quantities of the trades made against it.
C4_AtReturn ==
    pc = "return" =>
        /\ Len(makers) = Len(trade_buffer)
        /\ \A o \in RestingOrders(entry.buy_map) \cup RestingOrders(entry.sell_map) :
               QuantityNow(o.timestamp)
                   = o.quantity - TradedAgainst(o.timestamp, Len(makers))

\* C4, per step: no resting order's quantity grows.
C4_NeverGrows ==
    \A o \in RestingOrders(buy_map) \cup RestingOrders(sell_map) :
        QuantityNext(o.timestamp) <= o.quantity

\* C4 (maker quantity conservation): across a place_order call each resting
\* order's quantity decreases by exactly the sum of the trades of the result
\* made against it (a removed order counts as 0), an order that is maker of
\* no trade keeps its quantity, and a resting quantity never increases.
C4_MakerConservation == []C4_AtReturn /\ [][C4_NeverGrows]_vars

\* A call has left one resting order partially filled and another untouched.
C4_Witness ==
    /\ pc = "return"
    /\ \E a, b \in RestingOrders(EntryOpposing) :
           /\ QuantityNow(a.timestamp) > 0
           /\ QuantityNow(a.timestamp) < a.quantity
           /\ b.timestamp # a.timestamp
           /\ QuantityNow(b.timestamp) = b.quantity

\* C5 (maker's price): every trade in the buffer of a call is priced at the
\* price at which its maker order rested when the call began, whatever the
\* taker's limit.
C5_MakerPrice ==
    pc # "idle" =>
        /\ Len(makers) = Len(trade_buffer)
        /\ \A n \in 1..Len(makers) :
               \E o \in RestingOrders(EntryOpposing) :
                   /\ o.timestamp = makers[n]
                   /\ o.price = trade_buffer[n].price

\* A taker has traded at a maker's price strictly inside its own limit.
C5_Witness ==
    /\ pc = "return"
    /\ \E n \in 1..Len(trade_buffer) :
           IF side = "Buy" THEN trade_buffer[n].price < price
           ELSE trade_buffer[n].price > price

\* C6 (limit respected, inclusive crossing): no trade of a buy is priced
\* above its limit and no trade of a sell below its limit; and when an
\* opposing order rested at exactly the limit as the call began, the call
\* returns with a trade at the limit or with nothing left to match.
C6_LimitRespected ==
    /\ pc # "idle" =>
           \A n \in 1..Len(trade_buffer) :
               IF side = "Buy" THEN trade_buffer[n].price <= price
               ELSE trade_buffer[n].price >= price
    /\ (pc = "return" /\ \E o \in RestingOrders(EntryOpposing) : o.price = price)
           => \/ remaining_quantity = 0
              \/ \E n \in 1..Len(trade_buffer) : trade_buffer[n].price = price

\* A call has traded against an order resting at exactly its limit price.
C6_Witness ==
    /\ pc = "return"
    /\ \E o \in RestingOrders(EntryOpposing) : o.price = price
    /\ \E n \in 1..Len(trade_buffer) : trade_buffer[n].price = price

----------------------------------------------------------------------------
\* What a query at price p must answer on a side: None when no order rests
\* at p, else p with the sum of the quantities resting at p.
RestingAt(price_map, p) == {o \in RestingOrders(price_map) : o.price = p}
ExpectedAt(price_map, p) ==
    IF RestingAt(price_map, p) = {} THEN None
    ELSE Some(<<p, SetSumQuantity(RestingAt(price_map, p))>>)

\* The prices queried: those orders are placed at, and one on either side.
QueryPrices == 0..(MaxPrice + 1)

\* place_order is not running: it has returned, or none was made yet.
BetweenCalls == pc \in {"idle", "return"}

\* C7 (quantity at a price): between place_order calls buy_at(p) and
\* sell_at(p) are None exactly when no order rests at p on that side, and
\* else (p, q) with q the sum of the quantities resting at p on that side.
C7_QuantityAt ==
    BetweenCalls =>
        \A p \in QueryPrices :
            /\ buy_at(p) = ExpectedAt(buy_map, p)
            /\ sell_at(p) = ExpectedAt(sell_map, p)

\* Of two sell levels the call found, one is fully matched and answers None,
\* the other is matched in part and answers what is left of it; a price never
\* used answers None.
C7_Witness ==
    /\ pc = "return"
    /\ \E p \in DOMAIN entry.sell_map : sell_at(p) = None
    /\ \E p \in DOMAIN entry.sell_map :
           /\ sell_at(p) # None
           /\ sell_at(p)[1][2] < SumQuantity(entry.sell_map[p].orders)
    /\ buy_at(0) = None

\* What best_buy and best_sell must answer.
ExpectedBestBuy ==
    IF RestingOrders(buy_map) = {} THEN None
    ELSE ExpectedAt(buy_map, SetMax({o.price : o \in RestingOrders(buy_map)}))
ExpectedBestSell ==
    IF RestingOrders(sell_map) = {} THEN None
    ELSE ExpectedAt(sell_map, SetMin({o.price : o \in RestingOrders(sell_map)}))

\* C8 (best of book): between place_order calls best_buy is None exactly
\* when no buy order rests, and else the highest resting buy price with the
\* sum of the quantities resting there; best_sell likewise with the lowest
\* resting sell price.
C8_BestOfBook ==
    BetweenCalls =>
        /\ best_buy = ExpectedBestBuy
        /\ best_sell = ExpectedBestSell

\* A sell has drained the best buy level; best_buy answers the next level.
C8_Witness ==
    /\ pc = "return" /\ side = "Sell"
    /\ best_buy # None
    /\ \E p \in DOMAIN entry.buy_map : p > best_buy[1][1]

\* C9 (zero quantity): a place_order call with quantity 0 returns an empty
\* trade list, leaves maps, queues and heaps as they were and does not
\* advance the sequence counter.
C9_ZeroQuantityNoop ==
    (pc # "idle" /\ quantity = 0) =>
        /\ pc = "return"
        /\ trade_buffer = <<>>
        /\ buy_map = entry.buy_map /\ sell_map = entry.sell_map
        /\ buy_heap = entry.buy_heap /\ sell_heap = entry.sell_heap
        /\ GLOBAL_TIMESTAMP = entry.GLOBAL_TIMESTAMP

\* A call of quantity 0 at a price that crosses a resting order, on a book
\* with orders on both sides, has returned.
C9_Witness ==
    /\ pc = "return" /\ quantity = 0
    /\ buy_map # EmptyMap /\ sell_map # EmptyMap
    /\ \E o \in RestingOrders(Opposing) : o.price = price

\* C10, per state: the buffer of a running or returned call holds as many
\* trades as the call has generated, each with the call's id as taker.
C10_OnlyThisCall ==
    pc # "idle" =>
        /\ Len(trade_buffer) = Len(makers)
        /\ \A n \in 1..Len(trade_buffer) : trade_buffer[n].taker_id = id

\* C10, per step: once a call runs, its buffer only grows at the end, one
\* trade at a time, and the returned buffer is the one the call filled.
C10_AppendOnly ==
    pc # "idle" =>
        \/ trade_buffer' = trade_buffer
        \/ /\ TradePushed
           /\ SubSeq(trade_buffer', 1, Len(trade_buffer)) = trade_buffer

\* C10 (trade list of a call): the trade list a place_order call returns
\* holds exactly the trades generated during that call, in generation order,
\* with the call's id as taker_id, and no trade of an earlier call, also when
\* the call matches nothing or has quantity 0.
C10_FreshTradeList == []C10_OnlyThisCall /\ [][C10_AppendOnly]_vars

\* The call before left trades in the buffer; this call matched nothing and
\* returns an empty list.
C10_Witness ==
    /\ pc = "return"
    /\ entry.trade_buffer # <<>>
    /\ makers = <<>>
    /\ trade_buffer = <<>>

----------------------------------------------------------------------------
\* Where place_order peeks at a heap (the heads of the two loops), and where
\* best_buy and best_sell may.
AtPeek == pc \in {"idle", "return", "buy_loop", "sell_loop"}

\* C11 (place_order is total): no call aborts, whatever the sides, prices,
\* quantities and ids of the calls; wherever a heap is peeked, the price it
\* reports has a level in the map of its side, so that unwrap never fails.
C11_NoAbort ==
    /\ pc # "panic"
    /\ AtPeek =>
           /\ BuyPeek(buy_heap) # None => BuyPeek(buy_heap)[1] \in DOMAIN buy_map
           /\ SellPeek(sell_heap) # None => SellPeek(sell_heap)[1] \in DOMAIN sell_map

\* A call whose id is the id of a resting order has traded against that
\* order and returned, leaving a level behind on the side it matched.
C11_Witness ==
    /\ pc = "return"
    /\ \E n \in 1..Len(trade_buffer) : trade_buffer[n].maker_id = id
    /\ Opposing # EmptyMap

\* C12 (trade quantity): every step that pushes a trade pushes one of
\* quantity at least 1, the smaller of what the taker still wants and what
\* the maker still has at that moment.
C12_TradeStep ==
    TradePushed =>
        \E maker \in Touched :
            /\ LastTrade.quantity >= 1
            /\ LastTrade.quantity = IF maker.quantity <= remaining_quantity
                                    THEN maker.quantity
                                    ELSE remaining_quantity

C12_TradeQuantity == [][C12_TradeStep]_vars

\* One call has traded the whole of a maker smaller than what it wanted,
\* then a part of a maker larger than what it still wanted.
C12_Witness ==
    /\ pc = "return"
    /\ Len(trade_buffer) = 2
    /\ trade_buffer[1].quantity < quantity
    /\ \E o \in RestingOrders(Opposing) :
           o.timestamp = makers[2] /\ o.quantity >= 1

----------------------------------------------------------------------------
\* C13 (no empty level, no empty order): between place_order calls every
\* price in buy_map or sell_map has a queue of at least one order, and in
\* every state every resting order has quantity at least 1: an order leaves
\* its queue in the step that fills it, an empty level leaves the map before
\* the call returns.
C13_NoEmptyLevel ==
    /\ \A o \in RestingOrders(buy_map) \cup RestingOrders(sell_map) :
           o.quantity >= 1
    /\ BetweenCalls =>
           /\ \A k \in DOMAIN buy_map : buy_map[k].orders # <<>>
           /\ \A k \in DOMAIN sell_map : sell_map[k].orders # <<>>

\* A call has filled the only order of one level, which is gone from the
\* map, and a part of an order of the next level, which stays.
C13_Witness ==
    /\ pc = "return"
    /\ \E k \in DOMAIN EntryOpposing : k \notin DOMAIN Opposing
    /\ \E o \in RestingOrders(EntryOpposing) :
           QuantityNow(o.timestamp) >= 1 /\ QuantityNow(o.timestamp) < o.quantity

\* C14 (heap and map in lockstep): between place_order calls each heap holds
\* one entry for each price that is a key of the map of its side, and no
\* other entry.
C14_Lockstep ==
    BetweenCalls =>
        /\ buy_heap = SetToBag(DOMAIN buy_map)
        /\ sell_heap = SetToBag(DOMAIN sell_map)

\* A second order has come to rest in a level that was there, and the heap
\* still holds the price once; the other side holds a level too.
C14_Witness ==
    /\ pc = "return"
    /\ price \in DOMAIN EntryOwn
    /\ Len(Own[price].orders) = 2
    /\ CopiesIn(price, IF side = "Buy" THEN buy_heap ELSE sell_heap) = 1
    /\ Opposing # EmptyMap

\* The own side as C15 expects it after a call with r left: the level of the
\* limit price with one order more at its back, every other level as it was.
ExpectedOwn(r) ==
    LET before == IF price \in DOMAIN EntryOwn THEN EntryOwn[price].orders
                  ELSE <<>>
        rested == [id |-> id, price |-> price, quantity |-> r,
                   timestamp |-> entry.GLOBAL_TIMESTAMP]
    IN [k \in DOMAIN EntryOwn \cup {price} |->
           IF k = price THEN [orders |-> Append(before, rested)]
           ELSE EntryOwn[k]]

\* C15 (resting of the remainder): a call that returns with r > 0 unfilled
\* has appended one order with the caller's id, the limit price and quantity
\* r to the back of the level of that price on the taker's side, and left
\* every order that rested there as it was; a call that is fully matched
\* leaves the taker's side as it was.
C15_Remainder ==
    pc = "return" =>
        LET r == quantity - SumQuantity(trade_buffer) IN
        IF r > 0 THEN Own = ExpectedOwn(r)
        ELSE /\ Own = EntryOwn
             /\ side = "Buy" => buy_heap = entry.buy_heap
             /\ side = "Sell" => sell_heap = entry.sell_heap

\* A call has traded at a price other than its limit and less than it
\* wanted, and its remainder rests at the limit.
C15_Witness ==
    /\ pc = "return"
    /\ NewlyResting # {}
    /\ \E n \in 1..Len(trade_buffer) : trade_buffer[n].price # price
    /\ \A o \in NewlyResting : o.price = price /\ o.quantity < quantity

----------------------------------------------------------------------------
\* The levels of both sides, as pairs of a side and a price, that hold an
\* order before and after a step, and the order at the front of one.
FrontNow(s, k) == Head((IF s = "Buy" THEN buy_map ELSE sell_map)[k].orders)
FrontNext(s, k) == Head((IF s = "Buy" THEN buy_map' ELSE sell_map')[k].orders)
HoldsNow(s, k) ==
    LET m == IF s = "Buy" THEN buy_map ELSE sell_map
    IN k \in DOMAIN m /\ m[k].orders # <<>>
HoldsNext(s, k) ==
    LET m == IF s = "Buy" THEN buy_map' ELSE sell_map'
    IN k \in DOMAIN m /\ m[k].orders # <<>>

\* C16, per step: the order at the front of a level stays at the front, with
\* its quantity or less, until a trade fills it; a trade is made against the
\* front of its level for at most the quantity the front order has left.
C16_FrontStep ==
    /\ \A s \in Sides, k \in Prices :
           HoldsNow(s, k) =>
               \/ /\ HoldsNext(s, k)
                  /\ FrontNext(s, k).timestamp = FrontNow(s, k).timestamp
                  /\ FrontNext(s, k).quantity <= FrontNow(s, k).quantity
               \/ /\ TradePushed
                  /\ LastTrade.price = k
                  /\ LastTrade.quantity = FrontNow(s, k).quantity
                  /\ makers'[Len(makers')] = FrontNow(s, k).timestamp
    /\ TradePushed =>
           /\ Touched = {Head(Opposing[LastTrade.price].orders)}
           /\ LastTrade.quantity <= Head(Opposing[LastTrade.price].orders).quantity

\* C16, per call: an order the call has filled in part is at the front of
\* its level, with what the trades against it have left.
C16_PartialAtFront ==
    pc = "return" =>
        \A o \in RestingOrders(EntryOpposing) :
            (QuantityNow(o.timestamp) >= 1 /\ QuantityNow(o.timestamp) < o.quantity)
                => /\ o.price \in DOMAIN Opposing
                   /\ Opposing[o.price].orders # <<>>
                   /\ Head(Opposing[o.price].orders)
                          = [o EXCEPT !.quantity = QuantityNow(o.timestamp)]

C17_NeverCrossed ==
    BetweenCalls =>
        \A b \in RestingOrders(buy_map), a \in RestingOrders(sell_map) :
            b.price < a.price

\* A call has traded, its remainder rests, and the side it matched still
\* holds an order, beyond the limit.
C17_Witness ==
    /\ pc = "return"
    /\ trade_buffer # <<>>
    /\ NewlyResting # {}
    /\ RestingOrders(Opposing) # {}

----------------------------------------------------------------------------
\* The orders the running call has filled in part so far.
PartlyFilled ==
    {o \in RestingOrders(EntryOpposing) :
        QuantityNow(o.timestamp) >= 1 /\ QuantityNow(o.timestamp) < o.quantity}

\* C18 (only the last trade may be partial): in the trade list of a call
\* every trade but the last has filled its maker, which is gone from the
\* book; the last leaves its maker with quantity only when it exhausts the
\* taker.  So a call leaves at most one order filled in part, and two trades
\* of a call carry one maker id only when two resting orders had that id.
C18_OnlyLastPartial ==
    pc # "idle" =>
        /\ Len(makers) = Len(trade_buffer)
        /\ \A n \in 1..Len(makers) :
               \/ QuantityNow(makers[n]) = 0
               \/ n = Len(makers) /\ remaining_quantity = 0
        /\ Cardinality(PartlyFilled) <= 1
        /\ \A m, n \in 1..Len(makers) :
               (m < n /\ trade_buffer[m].maker_id = trade_buffer[n].maker_id)
                   => \E a, b \in RestingOrders(EntryOpposing) :
                          /\ a.timestamp = makers[m] /\ b.timestamp = makers[n]
                          /\ a # b
                          /\ a.id = b.id

\* A call has filled one maker and a part of the next.
C18_Witness ==
    /\ pc = "return"
    /\ Len(trade_buffer) = 2
    /\ QuantityNow(makers[1]) = 0
    /\ QuantityNow(makers[2]) >= 1
    /\ remaining_quantity = 0

\* Whether the limit of the running call crosses the price k.
LimitCrosses(k) == IF side = "Buy" THEN price >= k ELSE price <= k

\* C19 (opposing-side frame): a place_order call leaves as it was every
\* opposing level whose price its limit does not cross; and when its limit
\* crosses no opposing level, or there is none, it pushes no trade and leaves
\* map, queues and heap of the opposing side as they were.
C19_OpposingFrame ==
    pc # "idle" =>
        /\ \A k \in DOMAIN EntryOpposing :
               ~LimitCrosses(k) =>
                   k \in DOMAIN Opposing /\ Opposing[k] = EntryOpposing[k]
        /\ (\A k \in DOMAIN EntryOpposing : ~LimitCrosses(k)) =>
               /\ trade_buffer = <<>>
               /\ Opposing = EntryOpposing
               /\ side = "Buy" => sell_heap = entry.sell_heap
               /\ side = "Sell" => buy_heap = entry.buy_heap

\* A call wanted more than the level its limit crosses held: it has traded
\* that level away and left the level beyond its limit as it was.
C19_Witness ==
    /\ pc = "return"
    /\ trade_buffer # <<>>
    /\ remaining_quantity > 0
    /\ \E k \in DOMAIN EntryOpposing : ~LimitCrosses(k)
    /\ \E k \in DOMAIN EntryOpposing : k \notin DOMAIN Opposing

----------------------------------------------------------------------------
\* A measure of what a running call still has to do: the opposing orders and
\* levels left, then where the call stands.  At a loop head the call is
\* further from its end while it still wants quantity.
PcRank(at, rem) ==
    IF at \in {"buy_loop", "sell_loop"} THEN (IF rem > 0 THEN 5 ELSE 2)
    ELSE IF at \in {"buy_match", "sell_match"} THEN 4
    ELSE IF at \in {"buy_remove", "sell_remove"} THEN 3
    ELSE IF at \in {"buy_rest", "sell_rest"} THEN 1
    ELSE 0
Variant ==
    6 * (Cardinality(RestingOrders(Opposing)) + Cardinality(DOMAIN Opposing))
    + PcRank(pc, remaining_quantity)
VariantNext ==
    6 * (Cardinality(RestingOrders(OpposingNext))
         + Cardinality(DOMAIN OpposingNext))
    + PcRank(pc', remaining_quantity')

InCall == pc \notin {"idle", "return"}

\* C20, per step: every step of a running call lowers the measure; a pass of
\* the inner loop removes the front maker or leaves nothing to match; a pass
\* of the outer loop leaves nothing to match or removes the level it matched.
C20_Progress ==
    /\ InCall => VariantNext < Variant
    /\ TradePushed =>
           \/ Cardinality(RestingOrders(OpposingNext))
                  = Cardinality(RestingOrders(Opposing)) - 1
           \/ remaining_quantity' = 0
    /\ pc \in {"buy_remove", "sell_remove"} =>
           \/ remaining_quantity = 0
           \/ best_price \notin DOMAIN OpposingNext

\* C20, per state: a call pushes at most one trade per opposing order it
\* found, and every pass of the outer loop has pushed one at its price.
C20_Bounded ==
    /\ InCall \/ pc = "return" =>
           Len(trade_buffer) <= Cardinality(RestingOrders(EntryOpposing))
    /\ pc \in {"buy_remove", "sell_remove"} =>
           /\ trade_buffer # <<>>
           /\ trade_buffer[Len(trade_buffer)].price = best_price

\* C20 (termination): every place_order call returns; each pass of the outer
\* loop leaves nothing to match or removes the best opposing level, each pass
\* of the inner loop removes the front maker or leaves nothing to match, and
\* the passes are bounded by the opposing orders the call found.
C20_Terminates ==
    /\ (pc # "idle") ~> (pc = "return")
    /\ []C20_Bounded
    /\ [][C20_Progress]_vars

\* A call has gone twice through the outer loop, removing a level each time,
\* and returned with quantity left.
C20_Witness ==
    /\ pc = "return"
    /\ Len(trade_buffer) = 2
    /\ trade_buffer[1].price # trade_buffer[2].price
    /\ Opposing = EmptyMap

====
